---- MODULE Spec2Model ----
(***************************************************************************)
(* A model of vscan-html-comment-analyzer (src/main.py): one run of main   *)
(* (argument classification, load, comment extraction, pattern matching,   *)
(* report), plus a harness that drives the matching loop of                *)
(* analyze_comments and write_results with arbitrary arguments.            *)
(*                                                                         *)
(* Text is modelled as a sequence of one-character strings, so that        *)
(* re.search and str.strip are computed on the characters.                 *)
(***************************************************************************)
EXTENDS Integers, Sequences, FiniteSets, TLC

(***************************************************************************)
(* Bounds of the model.                                                    *)
(***************************************************************************)
\* longest document (in nodes) main is run on
MaxNodes == 2

\* longest comment sequence the matching loop is driven with
MaxComments == 2

(***************************************************************************)
(* Characters and character classes of Python's re (str patterns).         *)
(***************************************************************************)
LowerLetters ==
    {"a","b","c","d","e","f","g","h","i","j","k","l","m",
     "n","o","p","q","r","s","t","u","v","w","x","y","z"}

UpperLetters ==
    {"A","B","C","D","E","F","G","H","I","J","K","L","M",
     "N","O","P","Q","R","S","T","U","V","W","X","Y","Z"}

Digits == {"0","1","2","3","4","5","6","7","8","9"}

\* \s
SpaceClass == {" ", "\t", "\n"}

\* \w (which already holds \d and "_")
WordClass == LowerLetters \cup UpperLetters \cup Digits \cup {"_"}

\* [:=]
SepClass == {":", "="}

\* [\w\d\-_]  (pattern 1)
ValueClass1 == WordClass \cup Digits \cup {"-", "_"}

\* [\w\d.:/]  (pattern 2)
JdbcClass == WordClass \cup Digits \cup {".", ":", "/"}

\* [\w\d\-]  (patterns 3 and 4)
ValueClass == WordClass \cup Digits \cup {"-"}

\* re.IGNORECASE: a character of the text is compared in lower case with
\* the (lower-case) literal of the pattern
Lower(c) ==
    CASE c = "A" -> "a" [] c = "B" -> "b" [] c = "C" -> "c" [] c = "D" -> "d"
      [] c = "E" -> "e" [] c = "F" -> "f" [] c = "G" -> "g" [] c = "H" -> "h"
      [] c = "I" -> "i" [] c = "J" -> "j" [] c = "K" -> "k" [] c = "L" -> "l"
      [] c = "M" -> "m" [] c = "N" -> "n" [] c = "O" -> "o" [] c = "P" -> "p"
      [] c = "Q" -> "q" [] c = "R" -> "r" [] c = "S" -> "s" [] c = "T" -> "t"
      [] c = "U" -> "u" [] c = "V" -> "v" [] c = "W" -> "w" [] c = "X" -> "x"
      [] c = "Y" -> "y" [] c = "Z" -> "z" [] OTHER -> c

(***************************************************************************)
(* Regular expressions: a sequence of items, each an alternation of        *)
(* literals, one character of a class, or a class repeated (star, plus).   *)
(***************************************************************************)
Alt(words) == [k |-> "alt", words |-> words, cls |-> {}]

One(cls) == [k |-> "one", words |-> {}, cls |-> cls]

Star(cls) == [k |-> "star", words |-> {}, cls |-> cls]

Plus(cls) == [k |-> "plus", words |-> {}, cls |-> cls]

W_password == <<"p","a","s","s","w","o","r","d">>

W_pwd == <<"p","w","d">>

W_secret == <<"s","e","c","r","e","t">>

W_key == <<"k","e","y">>

W_token == <<"t","o","k","e","n">>

W_jdbc == <<"j","d","b","c",":","m","y","s","q","l",":","/","/">>

W_api_key == <<"a","p","i","_","k","e","y">>

W_database == <<"d","a","t","a","b","a","s","e">>

\* the four patterns, in list order
sensitive_patterns ==
    << << Alt({W_password, W_pwd, W_secret, W_key, W_token}),
          Star(SpaceClass), One(SepClass), Star(SpaceClass), Plus(ValueClass1) >>,
       << Alt({W_jdbc}), Plus(JdbcClass) >>,
       << Alt({W_api_key}), Star(SpaceClass), One({"="}), Star(SpaceClass),
          Plus(ValueClass) >>,
       << Alt({W_database}), Star(SpaceClass), One({"="}), Star(SpaceClass),
          Plus(ValueClass) >> >>

\* the literal w stands in text at position pos, case-insensitively
LitAt(w, text, pos) ==
    /\ pos + Len(w) - 1 <= Len(text)
    /\ \A i \in 1..Len(w) : Lower(text[pos + i - 1]) = w[i]

\* the n characters of text from position pos are all of class cls
RunAt(cls, text, pos, n) ==
    /\ pos + n - 1 <= Len(text)
    /\ \A i \in 0..(n - 1) : text[pos + i] \in cls

RECURSIVE MatchFrom(_, _, _, _)
\* items k.. of pattern re match text from position pos on (some way of
\* matching exists: re.search only asks whether there is a match)
MatchFrom(re, k, text, pos) ==
    IF k > Len(re) THEN TRUE
    ELSE LET it == re[k] IN
         CASE it.k = "alt" ->
                \E w \in it.words :
                    LitAt(w, text, pos) /\ MatchFrom(re, k + 1, text, pos + Len(w))
           [] it.k = "one" ->
                RunAt(it.cls, text, pos, 1) /\ MatchFrom(re, k + 1, text, pos + 1)
           [] it.k = "star" ->
                \E n \in 0..(Len(text) - pos + 1) :
                    RunAt(it.cls, text, pos, n) /\ MatchFrom(re, k + 1, text, pos + n)
           [] it.k = "plus" ->
                \E n \in 1..(Len(text) - pos + 1) :
                    RunAt(it.cls, text, pos, n) /\ MatchFrom(re, k + 1, text, pos + n)

\* re.search(pattern, text, re.IGNORECASE) is not None
re_search(re, text) ==
    \E pos \in 1..(Len(text) + 1) : MatchFrom(re, 1, text, pos)

RECURSIVE LStrip(_)
LStrip(s) ==
    IF s # <<>> /\ Head(s) \in SpaceClass THEN LStrip(Tail(s)) ELSE s

RECURSIVE RStrip(_)
RStrip(s) ==
    IF s # <<>> /\ s[Len(s)] \in SpaceClass
    THEN RStrip(SubSeq(s, 1, Len(s) - 1)) ELSE s

\* str.strip()
strip(s) == RStrip(LStrip(s))

(***************************************************************************)
(* The comment texts the model runs on, as the parser hands them over      *)
(* (the text between the comment markers, blanks included).                *)
(***************************************************************************)
\* " password: abc123 "
T_password ==
    <<" ","p","a","s","s","w","o","r","d",":"," ","a","b","c","1","2","3"," ">>

\* " just a note "
T_note == <<" ","j","u","s","t"," ","a"," ","n","o","t","e"," ">>

\* " jdbc:mysql://localhost:3306/db "
T_jdbc ==
    <<" ","j","d","b","c",":","m","y","s","q","l",":","/","/","l","o","c","a",
      "l","h","o","s","t",":","3","3","0","6","/","d","b"," ">>

\* " api_key=XYZ "
T_api_key == <<" ","a","p","i","_","k","e","y","=","X","Y","Z"," ">>

\* " database=prod "
T_database == <<" ","d","a","t","a","b","a","s","e","=","p","r","o","d"," ">>

\* " PWD = x "
T_PWD == <<" ","P","W","D"," ","="," ","x"," ">>

\* " the key "
T_key == <<" ","t","h","e"," ","k","e","y"," ">>

\* " token: "
T_token == <<" ","t","o","k","e","n",":"," ">>

Corpus ==
    {T_password, T_note, T_jdbc, T_api_key, T_database, T_PWD, T_key, T_token}

\* some pattern of the list matches the comment
MatchesAny(text) ==
    \E j \in 1..Len(sensitive_patterns) : re_search(sensitive_patterns[j], text)

\* how many patterns of the list match the comment
NumMatching(text) ==
    Cardinality({j \in 1..Len(sensitive_patterns) :
                    re_search(sensitive_patterns[j], text)})

(***************************************************************************)
(* analyze_comments, from the comment sequence on: the two nested loops.   *)
(***************************************************************************)
LocationLabel == <<"H","T","M","L"," ","C","o","m","m","e","n","t">>

\* (str(comment).strip(), "HTML Comment")
Finding(comment) == [comment |-> strip(comment), location |-> LocationLabel]

RECURSIVE pattern_loop_inverted(_, _)
\* pattern_loop with the test inverted: appends on the first pattern that
\* does not match
pattern_loop_inverted(comment, j) ==
    IF j > Len(sensitive_patterns) THEN <<>>
    ELSE IF ~re_search(sensitive_patterns[j], comment)
         THEN <<Finding(comment)>>
         ELSE pattern_loop_inverted(comment, j + 1)

RECURSIVE pattern_loop(_, _)
\* for pattern in sensitive_patterns (from the j-th on): append and break
\* on the first pattern that matches
pattern_loop(comment, j) ==
    IF j > Len(sensitive_patterns) THEN <<>>
    ELSE IF re_search(sensitive_patterns[j], comment)
         THEN <<Finding(comment)>>
         ELSE pattern_loop(comment, j + 1)

RECURSIVE analyze_loop(_)
\* for comment in comments: ...; return findings
analyze_loop(cs) ==
    IF cs = <<>> THEN <<>>
    ELSE pattern_loop(Head(cs), 1) \o analyze_loop(Tail(cs))

(***************************************************************************)
(* Documents: the node sequence the parser builds from the markup text.    *)
(* A "tag" is markup that yields no string node, a "text" a text node, a   *)
(* "comment" a comment node. The empty sequence is the empty text.         *)
(***************************************************************************)
TagNode == [kind |-> "tag", text |-> <<>>]

TextNode == [kind |-> "text", text |-> <<"h","i">>]

CommentNode(t) == [kind |-> "comment", text |-> t]

\* the comments of the documents main is run on: one matching two
\* patterns, one matching one, one matching none
DocComments == {T_api_key, T_database, T_note}

Nodes == {TagNode, TextNode} \cup {CommentNode(t) : t \in DocComments}

SeqsUpTo(S, n) == UNION {[1..m -> S] : m \in 0..n}

Documents == SeqsUpTo(Nodes, MaxNodes)

\* the string nodes of the tree: text nodes and comment nodes
StringNodes(doc) == SelectSeq(doc, LAMBDA n : n.kind # "tag")

TextsOf(nodes) == [i \in 1..Len(nodes) |-> nodes[i].text]

\* the comment nodes' texts, in document order
CommentsOf(doc) == TextsOf(SelectSeq(doc, LAMBDA n : n.kind = "comment"))

\* whether the expression BeautifulSoup.Comment evaluates: Comment is a
\* name of the module bs4 (bs4.Comment, bs4.element.Comment), which main.py
\* does not import; the class BeautifulSoup has no attribute of that name,
\* so the expression raises AttributeError.
ClassHasComment == FALSE

\* soup.find_all(string=lambda text: isinstance(text, BeautifulSoup.Comment)):
\* the filter is called on every string node of the tree, and never on a tag
find_all(doc) ==
    IF StringNodes(doc) # <<>> /\ ~ClassHasComment
    THEN [raised |-> TRUE, comments |-> <<>>]
    ELSE [raised |-> FALSE, comments |-> CommentsOf(doc)]

(***************************************************************************)
(* The command line.                                                       *)
(***************************************************************************)
Inputs ==
    {"http://example.com/page.html", "index.html", "http:page.html",
     "//example.com/page.html", "http://[::1/page.html",
     "ftp://example.com/page.html"}

\* requests.compat.urlparse (urllib.parse.urlparse) on the inputs
urlparse(s) ==
    CASE s = "http://example.com/page.html" ->
            [raises |-> FALSE, scheme |-> "http", netloc |-> "example.com"]
      [] s = "index.html" ->
            [raises |-> FALSE, scheme |-> "", netloc |-> ""]
      [] s = "http:page.html" ->
            [raises |-> FALSE, scheme |-> "http", netloc |-> ""]
      [] s = "//example.com/page.html" ->
            [raises |-> FALSE, scheme |-> "", netloc |-> "example.com"]
      [] s = "http://[::1/page.html" ->
            [raises |-> TRUE, scheme |-> "", netloc |-> ""]
      [] s = "ftp://example.com/page.html" ->
            [raises |-> FALSE, scheme |-> "ftp", netloc |-> "example.com"]

\* Python's truth value of a str
TruthyStr(s) == s # ""

\* all([...])
all(xs) == \A i \in 1..Len(xs) : TruthyStr(xs[i])

\* is_url with any([...]) in the place of all([...])
is_url_any(input_string) ==
    LET result == urlparse(input_string) IN
    IF result.raises THEN FALSE
    ELSE \E x \in {result.scheme, result.netloc} : TruthyStr(x)

is_url(input_string) ==
    LET result == urlparse(input_string) IN
    IF result.raises THEN FALSE
    ELSE all(<<result.scheme, result.netloc>>)

\* args.output: the default None, or the string given with -o
NoneOut == "<None>"

Outputs == {NoneOut, "", "report.txt"}

\* if output_file:
TruthyOut(o) == o # NoneOut /\ o # ""

(***************************************************************************)
(* The report.                                                             *)
(***************************************************************************)
Line(prefix, text) == [prefix |-> prefix, text |-> text]

NoFindingsMsg == <<Line("No sensitive information found in HTML comments.", <<>>)>>

RECURSIVE finding_lines(_)
\* output_string += f"- Location: {location}\n  Comment: {comment}\n"
finding_lines(fl) ==
    IF fl = <<>> THEN <<>>
    ELSE << Line("- Location: ", Head(fl).location),
            Line("  Comment: ", Head(fl).comment) >> \o finding_lines(Tail(fl))

output_string(fl) == <<Line("Findings:", <<>>)>> \o finding_lines(fl)

\* the file at the output path
Absent == [exists |-> FALSE, data |-> <<>>]

File(data) == [exists |-> TRUE, data |-> data]

\* a report an earlier run left at the output path
OldFile == File(output_string(<<Finding(T_password)>>))

\* open_w_write with the file opened in mode "a"
open_a_write(old, data, outcome) ==
    CASE outcome = "ok" -> File(old.data \o data)
      [] outcome = "open_fails" -> old
      [] outcome = "write_fails" -> old

\* open(output_file, "w") ... f.write(output_string), by how it goes
open_w_write(old, data, outcome) ==
    CASE outcome = "ok" -> File(data)
      [] outcome = "open_fails" -> old
      [] outcome = "write_fails" -> File(<<>>)

WriteOutcomes == {"ok", "open_fails", "write_fails"}

NoContent == [isNone |-> TRUE, text |-> <<>>]

Content(doc) == [isNone |-> FALSE, text |-> doc]

\* the test of html_content left out: main always goes on to analyze
AlwaysContent(c) == TRUE

\* if html_content:
TruthyContent(c) == ~c.isNone /\ c.text # <<>>

Log(level, msg) == [level |-> level, msg |-> msg]

(***************************************************************************)
(* The state of one run.                                                   *)
(***************************************************************************)
VARIABLES
    pc,            \* where the run stands
    input_source,  \* args.input
    output_file,   \* args.output
    url,           \* what is_url answered
    html_content,  \* main's html_content: None, or the text loaded
    comments,      \* analyze_comments' comments
    findings,      \* analyze_comments' findings
    fs,            \* the file at the output path
    fs0,           \* that file before the run
    stdout,        \* what was printed, one entry per print
    log,           \* the log records, in order
    exc,           \* the exception that left main, or "none"
    exit_code,     \* the process's exit code, -1 while it runs
    calls          \* how often each operation was entered

vars == <<pc, input_source, output_file, url, html_content, comments, findings,
          fs, fs0, stdout, log, exc, exit_code, calls>>

NoCalls == [is_url |-> 0, get |-> 0, open |-> 0, analyze |-> 0, write |-> 0]

Called(op) == [calls EXCEPT ![op] = @ + 1]

\* an exception nobody catches leaves main: traceback, exit code 1
Uncaught(e) ==
    /\ pc' = "crashed"
    /\ exc' = e
    /\ exit_code' = 1

\* main returns: exit code 0
Returns ==
    /\ pc' = "done"
    /\ exc' = exc
    /\ exit_code' = 0

Init ==
    /\ pc = "start"
    /\ input_source \in Inputs
    /\ output_file \in Outputs
    /\ url = FALSE
    /\ html_content = NoContent
    /\ comments = <<>>
    /\ findings = <<>>
    /\ fs0 \in {Absent, OldFile}
    /\ fs = fs0
    /\ stdout = <<>>
    /\ log = <<>>
    /\ exc = "none"
    /\ exit_code = -1
    /\ calls = NoCalls

\* main, lines 144-145 and 147-148: classify the input
IsUrl ==
    /\ pc = "start"
    /\ url' = is_url(input_source)
    /\ calls' = Called("is_url")
    /\ log' = Append(log, Log("INFO", IF url' THEN "Analyzing URL" ELSE "Analyzing file"))
    /\ pc' = IF url' THEN "fetch" ELSE "read"
    /\ UNCHANGED <<input_source, output_file, html_content, comments, findings,
                   fs, fs0, stdout, exc, exit_code>>

\* what requests.get and raise_for_status can do for the input: only http
\* and https have a connection adapter (otherwise InvalidSchema, a
\* RequestException, as are connection errors and HTTPError for 4xx/5xx)
GetOutcomes(s) ==
    IF urlparse(s).scheme \in {"http", "https"}
    THEN {"ok", "RequestException"}
    ELSE {"RequestException"}

\* fetch_html
FetchHtml ==
    /\ pc = "fetch"
    /\ calls' = Called("get")
    /\ \E outcome \in GetOutcomes(input_source), doc \in Documents :
          IF outcome = "ok"
          THEN /\ html_content' = Content(doc)
               /\ log' = log
          ELSE /\ html_content' = NoContent
               /\ log' = Append(log, Log("ERROR", "Error fetching URL"))
    /\ pc' = "check"
    /\ UNCHANGED <<input_source, output_file, url, comments, findings,
                   fs, fs0, stdout, exc, exit_code>>

\* what open(filepath, 'r', encoding='utf-8') and f.read() can do
ReadOutcomes == {"ok", "FileNotFoundError", "IOError", "UnicodeDecodeError"}

\* read_html_file: UnicodeDecodeError is a ValueError, which neither
\* except clause catches
ReadHtmlFile ==
    /\ pc = "read"
    /\ calls' = Called("open")
    /\ \E outcome \in ReadOutcomes, doc \in Documents :
          CASE outcome = "ok" ->
                 /\ html_content' = Content(doc)
                 /\ log' = log
                 /\ pc' = "check"
                 /\ UNCHANGED <<exc, exit_code>>
            [] outcome = "FileNotFoundError" ->
                 /\ html_content' = NoContent
                 /\ log' = Append(log, Log("ERROR", "File not found"))
                 /\ pc' = "check"
                 /\ UNCHANGED <<exc, exit_code>>
            [] outcome = "IOError" ->
                 /\ html_content' = NoContent
                 /\ log' = Append(log, Log("ERROR", "Error reading file"))
                 /\ pc' = "check"
                 /\ UNCHANGED <<exc, exit_code>>
            [] outcome = "UnicodeDecodeError" ->
                 /\ html_content' = html_content
                 /\ log' = log
                 /\ Uncaught("UnicodeDecodeError")
    /\ UNCHANGED <<input_source, output_file, url, comments, findings,
                   fs, fs0, stdout>>

\* main, lines 151 and 154-155
CheckContent ==
    /\ pc = "check"
    /\ IF TruthyContent(html_content)
       THEN /\ pc' = "find_all"
            /\ UNCHANGED <<log, exc, exit_code>>
       ELSE /\ log' = Append(log, Log("ERROR", "Failed to retrieve HTML content."))
            /\ Returns
    /\ UNCHANGED <<input_source, output_file, url, html_content, comments,
                   findings, fs, fs0, stdout, calls>>

\* analyze_comments, lines 71-72: parse and collect the comment nodes
FindAll ==
    /\ pc = "find_all"
    /\ calls' = Called("analyze")
    /\ LET r == find_all(html_content.text) IN
       IF r.raised
       THEN /\ Uncaught("AttributeError")
            /\ comments' = comments
       ELSE /\ comments' = r.comments
            /\ pc' = "loop"
            /\ UNCHANGED <<exc, exit_code>>
    /\ UNCHANGED <<input_source, output_file, url, html_content, findings,
                   fs, fs0, stdout, log>>

\* analyze_comments, lines 73-87: the loops, and the return to main
AnalyzeLoop ==
    /\ pc = "loop"
    /\ findings' = analyze_loop(comments)
    /\ pc' = "write"
    /\ UNCHANGED <<input_source, output_file, url, html_content, comments,
                   fs, fs0, stdout, log, exc, exit_code, calls>>

\* NoFindingsBranch sending the message where the report would go
NoFindingsToOutput ==
    IF TruthyOut(output_file)
    THEN /\ fs' = File(NoFindingsMsg)
         /\ UNCHANGED <<stdout, log>>
    ELSE /\ stdout' = Append(stdout, NoFindingsMsg)
         /\ UNCHANGED <<fs, log>>

\* write_results, lines 111-112: the findings list is empty
NoFindingsBranch ==
    /\ stdout' = Append(stdout, NoFindingsMsg)
    /\ UNCHANGED <<fs, log>>

\* write_results, and main's return after it
WriteResults ==
    /\ pc = "write"
    /\ calls' = Called("write")
    /\ IF findings # <<>>
       THEN IF TruthyOut(output_file)
            THEN \E outcome \in WriteOutcomes :
                    /\ fs' = open_w_write(fs, output_string(findings), outcome)
                    /\ log' = Append(log,
                                IF outcome = "ok"
                                THEN Log("INFO", "Results written to")
                                ELSE Log("ERROR", "Error writing to file"))
                    /\ stdout' = stdout
            ELSE /\ stdout' = Append(stdout, output_string(findings))
                 /\ UNCHANGED <<fs, log>>
       ELSE NoFindingsBranch
    /\ Returns
    /\ UNCHANGED <<input_source, output_file, url, html_content, comments,
                   findings, fs0>>

Next ==
    \/ IsUrl
    \/ FetchHtml
    \/ ReadHtmlFile
    \/ CheckContent
    \/ FindAll
    \/ AnalyzeLoop
    \/ WriteResults

\* one run of main
Spec == Init /\ [][Next]_vars

(***************************************************************************)
(* The harness: analyze_comments entered at its loops with a comment       *)
(* sequence, then write_results with the findings, an output argument and  *)
(* a file at the output path.                                              *)
(***************************************************************************)
UnitInit ==
    /\ pc = "loop"
    /\ input_source = "index.html"
    /\ output_file \in Outputs
    /\ url = FALSE
    /\ html_content = NoContent
    /\ comments \in SeqsUpTo(Corpus, MaxComments)
    /\ findings = <<>>
    /\ fs0 \in {Absent, OldFile}
    /\ fs = fs0
    /\ stdout = <<>>
    /\ log = <<>>
    /\ exc = "none"
    /\ exit_code = -1
    /\ calls = NoCalls

UnitNext ==
    \/ AnalyzeLoop
    \/ WriteResults

UnitSpec == UnitInit /\ [][UnitNext]_vars

(***************************************************************************)
(* Properties.                                                             *)
(***************************************************************************)
Terminal == pc \in {"done", "crashed"}

\* the comments of the document main loaded, in document order
DocCommentTexts == CommentsOf(html_content.text)

Count(seq, x) == Cardinality({i \in DOMAIN seq : seq[i] = x})

Stripped(cs) == [i \in DOMAIN cs |-> strip(cs[i])]

FindingTexts == [k \in DOMAIN findings |-> findings[k].comment]

\* the findings the matching comments of cs give, one each, in order
ExpectedFindings(cs) ==
    LET m == SelectSeq(cs, MatchesAny) IN [i \in DOMAIN m |-> Finding(m[i])]

\* the report the code is to build for the findings: the header, then for
\* the k-th finding the lines 2k and 2k+1
IsReportOf(lines, fl) ==
    /\ Len(lines) = 1 + 2 * Len(fl)
    /\ lines[1] = Line("Findings:", <<>>)
    /\ \A k \in DOMAIN fl :
          /\ lines[2 * k] = Line("- Location: ", fl[k].location)
          /\ lines[2 * k + 1] = Line("  Comment: ", fl[k].comment)

\* text t stands in some line of the printed output or of a file written
\* in this run
Reported(t) ==
    \/ \E e \in DOMAIN stdout : \E n \in DOMAIN stdout[e] : stdout[e][n].text = t
    \/ fs # fs0 /\ \E n \in DOMAIN fs.data : fs.data[n].text = t

LastLog == log[Len(log)]

\* C1: once analyze_comments has been entered on a document, every comment
\* of the document that matches two or more patterns has contributed
\* exactly one Finding (as many Findings carry its text as comments do).
C1_OneFindingPerMultiMatch ==
    (calls.analyze = 1 /\ pc \in {"write", "done", "crashed"}) =>
        \A i \in DOMAIN DocCommentTexts :
            NumMatching(DocCommentTexts[i]) >= 2 =>
                Count(FindingTexts, strip(DocCommentTexts[i]))
                    = Count(Stripped(DocCommentTexts), strip(DocCommentTexts[i]))

\* C1, the loops alone (lines 73-87 applied to any comment sequence): each
\* comment contributes one Finding if some pattern matches and none
\* otherwise, so never more than one.
C1_LoopOneFindingEach ==
    pc \in {"write", "done"} =>
        \A i \in DOMAIN comments :
            Count(FindingTexts, strip(comments[i]))
                = IF MatchesAny(comments[i])
                  THEN Count(Stripped(comments), strip(comments[i]))
                  ELSE 0

\* C2: a comment that matches none of the four patterns is never in the
\* findings list, and its text is in no report printed or written.
C2_NonMatchingNeverReported ==
    \A i \in DOMAIN comments :
        ~MatchesAny(comments[i]) =>
            /\ \A k \in DOMAIN findings : findings[k].comment # strip(comments[i])
            /\ ~Reported(strip(comments[i]))

\* C2's case: the loops and write_results have run on a comment sequence
\* with a comment matching nothing beside one that matches, and a report
\* was produced.
C2_Witness ==
    /\ pc = "done"
    /\ calls.write = 1
    /\ findings # <<>>
    /\ \E i \in DOMAIN comments : ~MatchesAny(comments[i])
    /\ \E e \in DOMAIN stdout : IsReportOf(stdout[e], findings)

\* C3: when a run that entered analyze_comments has ended, the findings
\* are the trimmed texts of the document's matching comments, each paired
\* with the label "HTML Comment", in document order (an order-preserving
\* subsequence of the comments, so no longer than the comment sequence).
C3_FindingsInDocumentOrder ==
    (calls.analyze = 1 /\ Terminal) =>
        /\ pc = "done"
        /\ findings = ExpectedFindings(DocCommentTexts)
        /\ Len(findings) <= Len(DocCommentTexts)

\* C3, the loops alone (lines 73-87 applied to any comment sequence).
C3_LoopFindingsInOrder ==
    pc \in {"write", "done"} =>
        /\ findings = ExpectedFindings(comments)
        /\ Len(findings) <= Len(comments)

\* C4: no failure of the fetch, the read or the write leaves main as an
\* uncaught exception; the process ends with exit code 0.
C4_NoFailurePropagates ==
    /\ pc # "crashed"
    /\ exc = "none"
    /\ exit_code \in {-1, 0}

\* the loader returned None to main
LoaderReturnedNone == html_content.isNone /\ pc \in {"check", "done"}

\* C5: when the loader returned None, analyze_comments and write_results
\* are never entered, nothing is printed, the output file is untouched,
\* and the run ends normally right after logging the error
\* "Failed to retrieve HTML content.".
C5_NoContentNoReport ==
    LoaderReturnedNone =>
        /\ calls.analyze = 0
        /\ calls.write = 0
        /\ comments = <<>>
        /\ findings = <<>>
        /\ stdout = <<>>
        /\ fs = fs0
        /\ pc = "done" =>
              /\ exit_code = 0
              /\ exc = "none"
              /\ LastLog = Log("ERROR", "Failed to retrieve HTML content.")

\* C5's case: a URL whose GET failed (HTTP 404), and the run has ended.
C5_Witness ==
    /\ pc = "done"
    /\ url
    /\ html_content.isNone
    /\ \E n \in DOMAIN log : log[n] = Log("ERROR", "Error fetching URL")

\* C6: when the loader obtained the markup text (whatever it is, the empty
\* text included), the run enters analyze_comments and write_results and
\* never logs "Failed to retrieve HTML content."; a document without
\* comments gives no findings and the no-findings message.
C6_LoadedTextIsAnalysed ==
    (Terminal /\ ~html_content.isNone) =>
        /\ calls.analyze = 1
        /\ calls.write = 1
        /\ \A n \in DOMAIN log :
              log[n] # Log("ERROR", "Failed to retrieve HTML content.")
        /\ DocCommentTexts = <<>> =>
              /\ findings = <<>>
              /\ stdout = <<NoFindingsMsg>>

\* C7: when a run has ended on a loaded document whose comments all match
\* no pattern, write_results was called with the empty findings list and
\* printed exactly the no-findings message (and no "Findings:" report).
C7_NoFindingsMessage ==
    (Terminal /\ ~html_content.isNone
       /\ \A i \in DOMAIN DocCommentTexts : ~MatchesAny(DocCommentTexts[i])) =>
        /\ calls.write = 1
        /\ findings = <<>>
        /\ stdout = <<NoFindingsMsg>>

\* C7, write_results alone: called with the empty findings list it prints
\* exactly the no-findings message, whatever the output argument.
C7_WriteResultsEmpty ==
    (calls.write = 1 /\ findings = <<>>) => stdout = <<NoFindingsMsg>>

\* "an output path is given": -o with a non-empty string (write_results
\* tests the argument's truth value, so -o "" counts as no path given)
OutputGiven == output_file \notin {NoneOut, ""}

\* C8: write_results called with a non-empty findings list builds the
\* report (header, then two lines per finding, in findings order). With an
\* output path given nothing is printed, and either the file holds exactly
\* the report (whatever it held before) and the success is logged, or the
\* write failed and the error is logged; either way the run ends normally.
\* With no output path the report is printed and the file is untouched.
C8_ReportOfFindings ==
    (calls.write = 1 /\ findings # <<>>) =>
        /\ pc = "done"
        /\ exit_code = 0
        /\ IF OutputGiven
           THEN /\ stdout = <<>>
                /\ \/ /\ LastLog = Log("INFO", "Results written to")
                      /\ fs.exists
                      /\ IsReportOf(fs.data, findings)
                   \/ LastLog = Log("ERROR", "Error writing to file")
           ELSE /\ Len(stdout) = 1
                /\ IsReportOf(stdout[1], findings)
                /\ fs = fs0
                /\ log = <<>>

\* C8's case: two findings written over an older report.
C8_Witness ==
    /\ pc = "done"
    /\ Len(findings) = 2
    /\ OutputGiven
    /\ fs0 = OldFile
    /\ fs # fs0
    /\ IsReportOf(fs.data, findings)

\* C9: the input is classified exactly once; is_url answers (it never
\* raises) and answers true only if scheme and network location are both
\* non-empty; a URL is loaded by exactly one GET and no file read, anything
\* else by exactly one file read and no GET, and no load is repeated.
C9_OneClassificationOneLoad ==
    /\ calls.is_url <= 1
    /\ calls.get + calls.open <= 1
    /\ pc # "start" =>
          /\ calls.is_url = 1
          /\ url => /\ ~urlparse(input_source).raises
                    /\ urlparse(input_source).scheme # ""
                    /\ urlparse(input_source).netloc # ""
    /\ pc \notin {"start", "fetch", "read"} =>
          IF url THEN calls.get = 1 /\ calls.open = 0
                 ELSE calls.open = 1 /\ calls.get = 0

\* C9's case: a run on a URL has ended after its one GET.
C9_Witness ==
    /\ pc = "done"
    /\ url
    /\ calls.is_url = 1
    /\ calls.get = 1
    /\ calls.open = 0

\* C10: write_results called with the empty findings list leaves the file
\* at the output path as it was, also when an output path is given.
C10_EmptyFindingsLeaveFile ==
    (calls.write = 1 /\ findings = <<>>) => fs = fs0

\* C10's case: no findings, an output path given, and the report an
\* earlier run left there is still in place.
C10_Witness ==
    /\ pc = "done"
    /\ calls.write = 1
    /\ findings = <<>>
    /\ OutputGiven
    /\ fs0 = OldFile
    /\ fs = OldFile

====
